---- MODULE Spec2Model ----
(***************************************************************************)
(* State-machine model of the leafer-player VideoPlayer widget             *)
(* (src/VideoPlayer.ts): playback status machine, bottom-control           *)
(* visibility, render loop, media-event handlers and teardown.             *)
(*                                                                         *)
(* Time is counted in milliseconds.  Every handler of the component is one *)
(* atomic step (JavaScript runs each handler to completion); a handler is  *)
(* written as an operator from a world record to a world record, composed  *)
(* in the order of the statements of the source.                           *)
(***************************************************************************)
EXTENDS Integers, Sequences, FiniteSets, TLC

\* ------------------------------------------------------------------ bounds
\* duration of the media resource, ms
MediaDur == 100
\* how far one playback step of the media advances the position, ms
PlayStep == 50
\* media events queued and not yet dispatched
MaxQueue == 2
\* one-shot "seeked" listeners registered at the same time
MaxSeekedL == 2
\* frame callbacks outstanding at the same time
MaxRaf == 3
\* width of the progress bar in world coordinates (when it is not zero)
BarWidth == 2
\* world x coordinate of the left edge of the progress bar
BarOriginX == 1

\* ------------------------------------------------------- program constants
\* tryPlay: end-of-stream epsilon (0.05 s)
EndEps == 50
\* renderFirstFrameAsCover: cover seek target (0.01 s)
CoverSeek == 10
\* renderFirstFrameAsCover: margin kept before the duration (0.001 s)
CoverMargin == 1

\* the value of this.rafId while no frame callback is requested (handles are
\* positive)
NULL == 0

Min(a, b) == IF a <= b THEN a ELSE b
Max(a, b) == IF a >= b THEN a ELSE b

Statuses == {"empty", "loading", "play", "pause"}

\* the UI nodes whose attributes the component mutates
CenterEls == {"playEl", "pauseEl", "loadingEl"}
BottomIcons == {"controlPlayEl", "controlPauseEl"}
BottomEls ==
  {"progressBarEl", "timeTextEl", "controlDownloadEl", "controlFullScreenEl"}
    \cup BottomIcons
Els == CenterEls \cup BottomEls

VARIABLES
  cfg,        \* configuration read once at construction
  status,     \* this.status
  rafId,      \* this.rafId: NULL or the handle of the frame callback
  suppressOnPauseOnce,
  controlsVisible,
  videoEl,    \* TRUE iff this.videoEl refers to the media resource
  duration,   \* this.videoInfo.duration (0 until metadata is known)
  drawReady,  \* this.videoInfo.drawPosition has a non-zero width and height
  ui,         \* attributes visible/opacity/hittable of every UI node
  mountedL,   \* once(ChildEvent.MOUNTED, initVideoEl) still registered
  destroyL,   \* on(ChildEvent.DESTROY, cleanup) still registered
  life,       \* position of the node in the host tree
  media,      \* the media resource (the <video> element)
  handlers,   \* the five named media listeners are registered
  seekedL,    \* one-shot "seeked" listeners, in registration order
  queue,      \* media events queued for dispatch, oldest first
  scheduled,  \* frame callbacks requested and neither run nor cancelled
  out,        \* effects of the last step: the event dispatched, then the
              \* hooks invoked, paints, progress updates and media calls
  silentSince,\* pauseSilently() was called since the last handled pause event
  snap,       \* bottom-control attributes saved by setControlsVisible(false)
  destroyed,  \* destroy() has been called
  geom,       \* container size, drawing surface (canvasEl) and draw rectangle
  timeText,   \* two times in seconds and the texts formatTime gives for them
  download    \* the calls of downloadVideo: position, links clicked, error

vars ==
  << cfg, status, rafId, suppressOnPauseOnce, controlsVisible, videoEl,
     duration, drawReady, ui, mountedL, destroyL, life,
     media, handlers, seekedL, queue, scheduled, out, silentSince,
     snap, destroyed, geom, timeText, download >>

\* the state of the letterbox geometry, of the time formatting and of the
\* download, each of which has a specification of its own
aside == << geom, timeText, download >>

\* the state of the player proper
machine ==
  << cfg, status, rafId, suppressOnPauseOnce, controlsVisible, videoEl,
     duration, drawReady, ui, mountedL, destroyL, life,
     media, handlers, seekedL, queue, scheduled, out, silentSince,
     snap, destroyed >>

\* the world record the handlers are written over
World ==
  [ cfg |-> cfg, status |-> status, rafId |-> rafId,
    suppressOnPauseOnce |-> suppressOnPauseOnce,
    controlsVisible |-> controlsVisible, videoEl |-> videoEl,
    duration |-> duration, drawReady |-> drawReady,
    ui |-> ui,
    mountedL |-> mountedL, destroyL |-> destroyL, life |-> life,
    media |-> media, handlers |-> handlers, seekedL |-> seekedL,
    queue |-> queue, scheduled |-> scheduled, out |-> << >> ]

Commit(w) ==
  /\ Len(w.queue) <= MaxQueue
  /\ Len(w.seekedL) <= MaxSeekedL
  /\ cfg' = w.cfg
  /\ status' = w.status
  /\ rafId' = w.rafId
  /\ suppressOnPauseOnce' = w.suppressOnPauseOnce
  /\ controlsVisible' = w.controlsVisible
  /\ videoEl' = w.videoEl
  /\ duration' = w.duration
  /\ drawReady' = w.drawReady
  /\ ui' = w.ui
  /\ mountedL' = w.mountedL
  /\ destroyL' = w.destroyL
  /\ life' = w.life
  /\ media' = w.media
  /\ handlers' = w.handlers
  /\ seekedL' = w.seekedL
  /\ queue' = w.queue
  /\ scheduled' = w.scheduled
  /\ out' = w.out
  /\ UNCHANGED aside

Emit(w, e) == [w EXCEPT !.out = Append(@, e)]

\* the entry of out that names a dispatched media event
Tag(type, cause) == "event " \o type \o " " \o cause

\* ------------------------------------------------------ the media resource
\* (the HTMLVideoElement the component creates; modelled at its call sites)

Ev(type, cause) == [type |-> type, cause |-> cause]

NoMedia == [state |-> "none", paused |-> TRUE, pos |-> 0, hasMeta |-> FALSE]

\* videoEl.ended: the position is the end of the resource
mediaEnded(w) == w.media.hasMeta /\ w.media.pos = MediaDur

\* videoEl.currentTime = t: a seek once metadata is there; "seeked" is fired
\* when the seek completes, which media events fired meanwhile may precede
\* (see Deliver)
mediaSeek(w, t) ==
  IF ~w.media.hasMeta THEN w
  ELSE [w EXCEPT !.media.pos = t, !.queue = Append(@, Ev("seeked", "env"))]

\* videoEl.pause(): a playing resource pauses and queues "pause"
mediaPause(w, cause) ==
  LET w1 == Emit(w, "media.pause") IN
  IF w1.media.paused THEN w1
  ELSE [w1 EXCEPT !.media.paused = TRUE,
                  !.queue = Append(@, Ev("pause", cause))]

\* videoEl.play(): ok = FALSE is a request the browser rejects (autoplay
\* policy); otherwise an ended resource seeks to its start and a paused one
\* starts and queues "play"
mediaPlay(w, ok) ==
  LET w1 == Emit(w, "media.play") IN
  IF ~ok THEN w1
  ELSE LET w2 == IF mediaEnded(w1) THEN mediaSeek(w1, 0) ELSE w1 IN
       IF w2.media.paused
         THEN [w2 EXCEPT !.media.paused = FALSE,
                         !.queue = Append(@, Ev("play", "env"))]
         ELSE w2

\* video.pause(); video.load(); video.remove() of cleanup: load() drops the
\* queued events of the resource and resets it; the resource then reloads
mediaRelease(w) ==
  [w EXCEPT !.media = [state |-> "released", paused |-> TRUE, pos |-> 0,
                       hasMeta |-> FALSE],
            !.queue = << >>,
            !.out = @ \o << "media.pause", "media.load" >>]

\* ------------------------------------------------------------ UI attributes

Attr(v, o, h) == [visible |-> v, opacity |-> o, hittable |-> h]

setVisibleInteractive(w, el, visible) ==
  [w EXCEPT !.ui[el].opacity = IF visible THEN 1 ELSE 0,
            !.ui[el].hittable = visible]

setVisibleWithHittable(w, el, visible, hittable) ==
  [w EXCEPT !.ui[el] = Attr(visible, IF visible THEN 1 ELSE 0, hittable)]

\* mutant: the download button ignores the master switch
applyBottomControlsVisibility_downloadOwnSwitch(w) ==
  LET on == w.controlsVisible
      progressVisible == on /\ w.cfg.pbVisible
      downloadOn == w.cfg.downloadVisible
      w1 == setVisibleWithHittable(w, "progressBarEl", progressVisible,
                                   progressVisible /\ w.cfg.pbHittable)
      w2 == setVisibleWithHittable(w1, "timeTextEl", on, FALSE)
      w3 == setVisibleWithHittable(w2, "controlDownloadEl", downloadOn,
                                   downloadOn)
      w4 == setVisibleWithHittable(w3, "controlFullScreenEl", on, on)
  IN IF ~on
       THEN setVisibleWithHittable(
              setVisibleWithHittable(w4, "controlPlayEl", FALSE, FALSE),
              "controlPauseEl", FALSE, FALSE)
       ELSE [w4 EXCEPT !.ui["controlPlayEl"].visible = TRUE,
                       !.ui["controlPauseEl"].visible = TRUE]

applyBottomControlsVisibility(w) ==
  LET on == w.controlsVisible
      progressVisible == on /\ w.cfg.pbVisible
      downloadOn == on /\ w.cfg.downloadVisible
      w1 == setVisibleWithHittable(w, "progressBarEl", progressVisible,
                                   progressVisible /\ w.cfg.pbHittable)
      w2 == setVisibleWithHittable(w1, "timeTextEl", on, FALSE)
      w3 == setVisibleWithHittable(w2, "controlDownloadEl", downloadOn,
                                   downloadOn)
      w4 == setVisibleWithHittable(w3, "controlFullScreenEl", on, on)
  IN IF ~on
       THEN setVisibleWithHittable(
              setVisibleWithHittable(w4, "controlPlayEl", FALSE, FALSE),
              "controlPauseEl", FALSE, FALSE)
       ELSE [w4 EXCEPT !.ui["controlPlayEl"].visible = TRUE,
                       !.ui["controlPauseEl"].visible = TRUE]

\* the switch of toggleStatus: which nodes each status shows
statusIcons(w, st) ==
  CASE st = "loading" ->
         setVisibleInteractive(
           setVisibleInteractive(
             setVisibleInteractive(w, "playEl", FALSE),
             "pauseEl", FALSE),
           "loadingEl", TRUE)
    [] st = "pause" ->
         setVisibleInteractive(
           setVisibleInteractive(
             setVisibleInteractive(
               setVisibleInteractive(
                 setVisibleInteractive(w, "playEl", TRUE),
                 "pauseEl", FALSE),
               "loadingEl", FALSE),
             "controlPlayEl", TRUE),
           "controlPauseEl", FALSE)
    [] st = "play" ->
         setVisibleInteractive(
           setVisibleInteractive(
             setVisibleInteractive(
               setVisibleInteractive(
                 setVisibleInteractive(w, "playEl", FALSE),
                 "pauseEl", TRUE),
               "loadingEl", FALSE),
             "controlPlayEl", FALSE),
           "controlPauseEl", TRUE)

\* mutant: the status machine does not re-apply the master switch
toggleStatus_noReapply(w, st) == [statusIcons(w, st) EXCEPT !.status = st]

toggleStatus(w, st) ==
  applyBottomControlsVisibility([statusIcons(w, st) EXCEPT !.status = st])

\* the attributes the UI factories give the nodes (unset attributes take the
\* toolkit's defaults: visible, opacity 1, hittable)
createdUi(c, cv) ==
  [el \in Els |->
     CASE el = "playEl" -> Attr(TRUE, 1, TRUE)
       [] el = "pauseEl" -> Attr(TRUE, 0, FALSE)
       [] el = "loadingEl" -> Attr(TRUE, 0, FALSE)
       [] el = "progressBarEl" ->
            Attr(cv /\ c.pbVisible, 1, cv /\ c.pbVisible /\ c.pbHittable)
       [] el = "controlPlayEl" -> Attr(TRUE, 1, FALSE)
       [] el = "controlPauseEl" -> Attr(TRUE, 0, FALSE)
       [] OTHER -> Attr(TRUE, 1, TRUE)]

\* -------------------------------------------------------------- render loop

\* the handle requestAnimationFrame returns: one no outstanding callback has
FreshRaf(w) ==
  CHOOSE i \in 1..(Cardinality(w.scheduled) + 1) : i \notin w.scheduled

\* mutant: the handle is cleared without cancelling the callback
stopRenderLoop_noCancel(w) == [w EXCEPT !.rafId = NULL]

stopRenderLoop(w) ==
  IF w.rafId # NULL
    THEN [w EXCEPT !.scheduled = @ \ {w.rafId}, !.rafId = NULL]
    ELSE w

requestFrame(w) ==
  LET id == FreshRaf(w) IN
  [w EXCEPT !.scheduled = @ \cup {id}, !.rafId = id]

startRenderLoop(w) == requestFrame(stopRenderLoop(w))

paintToCanvas(w) ==
  IF ~w.videoEl \/ ~w.drawReady THEN w ELSE Emit(w, "paint")

\* updateProgressBar with updateTimeDisplay: the fill width and the time text
\* are set from videoEl.currentTime and are read by nothing; the write is
\* recorded as an effect of the step
updateProgressBar(w) ==
  IF ~w.videoEl \/ w.duration = 0 THEN w ELSE Emit(w, "progress")

\* mutant: the tick reschedules itself whatever the status
renderTick_alwaysReschedules(w) ==
  IF w.status = "play"
    THEN requestFrame(updateProgressBar(paintToCanvas(w)))
    ELSE requestFrame(w)

renderTick(w) ==
  IF w.status = "play"
    THEN requestFrame(updateProgressBar(paintToCanvas(w)))
    ELSE [w EXCEPT !.rafId = NULL]

\* ------------------------------------------------------------------ playback

\* the one-shot "seeked" listener tryPlay registers
restartSeeked(w, ok) ==
  LET w1 == paintToCanvas(w) IN
  IF w1.videoEl THEN mediaPlay(w1, ok) ELSE w1

isAtEnd(w) ==
  \/ mediaEnded(w)
  \/ (w.duration > 0 /\ w.media.pos >= Max(0, w.duration - EndEps))

tryPlay(w, ok) ==
  IF ~w.videoEl THEN w
  ELSE
    LET w1 == IF w.duration = 0 /\ w.status # "play"
                THEN toggleStatus(w, "loading") ELSE w
    IN IF isAtEnd(w1)
         THEN LET w2 == mediaSeek(toggleStatus(w1, "loading"), 0) IN
              [w2 EXCEPT !.seekedL = Append(@, "restart")]
         ELSE mediaPlay(w1, ok)

\* --------------------------------------------------------------- media events

onVideoPlay(w) ==
  Emit(startRenderLoop(toggleStatus(w, "play")), "onPlay")

\* mutant: the pause handler leaves the render loop running
onVideoPause_keepsLoop(w) ==
  LET w1 == toggleStatus(w, "pause") IN
  IF w1.suppressOnPauseOnce
    THEN [w1 EXCEPT !.suppressOnPauseOnce = FALSE]
    ELSE Emit(w1, "onPause")

\* mutant: the pause handler does not clear the one-shot flag
onVideoPause_keepsFlag(w) ==
  LET w1 == stopRenderLoop(toggleStatus(w, "pause")) IN
  IF w1.suppressOnPauseOnce THEN w1 ELSE Emit(w1, "onPause")

onVideoPause(w) ==
  LET w1 == stopRenderLoop(toggleStatus(w, "pause")) IN
  IF w1.suppressOnPauseOnce
    THEN [w1 EXCEPT !.suppressOnPauseOnce = FALSE]
    ELSE Emit(w1, "onPause")

\* this.currentTime is only handed to the onTimeUpdate hook
onVideoTimeUpdate(w) ==
  LET w1 == IF w.status # "play"
              THEN paintToCanvas(updateProgressBar(w)) ELSE w
  IN Emit(w1, "onTimeUpdate")

\* the one-shot "seeked" listener renderFirstFrameAsCover registers
coverSeeked(w) ==
  updateProgressBar(toggleStatus(paintToCanvas(w), "pause"))

renderFirstFrameAsCover(w) ==
  IF ~w.videoEl \/ w.duration = 0 THEN w
  ELSE LET maxSafe == Max(0, w.duration - CoverMargin)
           t == Min(CoverSeek, maxSafe)
       IN mediaSeek([w EXCEPT !.seekedL = Append(@, "cover")], t)

\* mutant: metadata arriving in status loading issues no play request
onVideoLoadedMetadata_noResume(w, ok) ==
  LET w1 == [w EXCEPT !.duration = MediaDur, !.drawReady = TRUE]
  IN IF ~w1.cfg.poster /\ w1.status = "empty"
       THEN renderFirstFrameAsCover(w1) ELSE w1

onVideoLoadedMetadata(w, ok) ==
  LET w1 == [w EXCEPT !.duration = MediaDur, !.drawReady = TRUE]
      w2 == IF ~w1.cfg.poster /\ w1.status = "empty"
              THEN renderFirstFrameAsCover(w1) ELSE w1
  IN IF w2.status = "loading" THEN tryPlay(w2, ok) ELSE w2

\* mutant: the end of playback puts the status back to empty
onVideoEnded_resetsStatus(w) ==
  IF ~w.videoEl THEN w
  ELSE Emit(
         paintToCanvas(
           updateProgressBar(
             [toggleStatus(mediaPause(w, "env"), "pause")
                EXCEPT !.status = "empty"])),
         "onEnded")

onVideoEnded(w) ==
  IF ~w.videoEl THEN w
  ELSE Emit(
         paintToCanvas(
           updateProgressBar(
             toggleStatus(mediaPause(w, "env"), "pause"))),
         "onEnded")

\* --------------------------------------------------------------- tap to seek

\* mutant: the tap position is not taken relative to the left edge of the bar
handleSeekByProgressTap_noOrigin(w, x, barLength) ==
  IF ~w.videoEl \/ w.duration = 0 THEN w
  ELSE IF barLength = 0 THEN w
  ELSE LET off == Max(0, Min(barLength, x)) IN
       mediaSeek(w, (w.duration * off) \div barLength)

\* mutant: the tap seeks although the duration is unknown
handleSeekByProgressTap_noDurationGuard(w, x, barLength) ==
  IF ~w.videoEl THEN w
  ELSE IF barLength = 0 THEN w
  ELSE LET off == Max(0, Min(barLength, x - BarOriginX)) IN
       mediaSeek(w, (w.duration * off) \div barLength)

\* barLength is the width of progressBarEl.worldBoxBounds, read at each tap
handleSeekByProgressTap(w, x, barLength) ==
  IF ~w.videoEl \/ w.duration = 0 THEN w
  ELSE IF barLength = 0 THEN w
  ELSE LET off == Max(0, Min(barLength, x - BarOriginX)) IN
       mediaSeek(w, (w.duration * off) \div barLength)

\* ------------------------------------------------------------------ lifecycle

initVideoEl(w) ==
  [w EXCEPT !.media = [state |-> "live", paused |-> TRUE, pos |-> 0,
                       hasMeta |-> FALSE],
            !.handlers = TRUE,
            !.videoEl = TRUE]

\* mutant: teardown releases the media resource with the render loop running
cleanup_keepsLoop(w) ==
  LET w2 == IF w.videoEl
              THEN mediaRelease([w EXCEPT !.handlers = FALSE])
              ELSE w
  IN [w2 EXCEPT !.videoEl = FALSE]

cleanup(w) ==
  LET w1 == stopRenderLoop(w)
      w2 == IF w1.videoEl
              THEN mediaRelease([w1 EXCEPT !.handlers = FALSE])
              ELSE w1
  IN [w2 EXCEPT !.videoEl = FALSE]

destroy(w) == cleanup([w EXCEPT !.destroyL = FALSE])

\* -------------------------------------------------- floating-point numbers
\* JavaScript numbers are binary floating-point values.  They are modelled
\* with a significand of FloatBits bits (the program's have 53) and an
\* unbounded exponent; every operation rounds its exact result to the nearest
\* value, ties to the even significand.

\* bits of the significand of the modelled numbers
FloatBits == 6

RECURSIVE Pow2(_)
Pow2(n) == IF n = 0 THEN 1 ELSE 2 * Pow2(n - 1)

Abs(n) == IF n < 0 THEN -n ELSE n
Sgn(n) == IF n < 0 THEN -1 ELSE IF n = 0 THEN 0 ELSE 1

\* the number m * 2^e
Float(m, e) == [m |-> m, e |-> e]

\* the number nearest to n / d * 2^e, for n >= 0 and d > 0
RECURSIVE Round(_, _, _)
Round(n, d, e) ==
  IF n = 0 THEN Float(0, 0)
  ELSE IF n < d * Pow2(FloatBits - 1) THEN Round(2 * n, d, e - 1)
  ELSE IF n >= d * Pow2(FloatBits) THEN Round(n, 2 * d, e + 1)
  ELSE LET q == n \div d
           r == n % d
           m == IF 2 * r > d \/ (2 * r = d /\ q % 2 = 1) THEN q + 1 ELSE q
       IN IF m = Pow2(FloatBits)
            THEN Float(Pow2(FloatBits - 1), e + 1)
            ELSE Float(m, e)

Signed(s, a) == Float(s * a.m, a.e)

\* the number an integer is
FromInt(n) == Signed(Sgn(n), Round(Abs(n), 1, 0))

\* a / b, a * b and a - b of the program
FDiv(a, b) ==
  Signed(Sgn(a.m) * Sgn(b.m), Round(Abs(a.m), Abs(b.m), a.e - b.e))

FMul(a, b) ==
  Signed(Sgn(a.m) * Sgn(b.m), Round(Abs(a.m) * Abs(b.m), 1, a.e + b.e))

FSub(a, b) ==
  LET e0 == Min(a.e, b.e)
      n == a.m * Pow2(a.e - e0) - b.m * Pow2(b.e - e0)
  IN Signed(Sgn(n), Round(Abs(n), 1, e0))

\* a > b of the program
FGreater(a, b) ==
  LET e0 == Min(a.e, b.e) IN
  a.m * Pow2(a.e - e0) > b.m * Pow2(b.e - e0)

\* -------------------------------------------------------- letterbox geometry

\* the widths and heights of containers and videos (0: none or not given)
Dims == {0, 1, 2, 3, 13}

\* the geometry after construction: createCanvas gives canvasEl the size of
\* the container (scale is the toolkit's default)
newGeom(w, h) ==
  [ width |-> w, height |-> h,
    canvasEl |-> [width |-> FromInt(w), height |-> FromInt(h),
                  scale |-> FromInt(1)],
    videoWidth |-> 0, videoHeight |-> 0,
    drawPosition |->
      << FromInt(0), FromInt(0), FromInt(0), FromInt(0) >> ]

\* computeDrawPosition, with the assignment of its result and of the native
\* size to videoInfo that its caller onVideoLoadedMetadata makes
computeDrawPosition(g, videoWidth, videoHeight) ==
  LET stored == [g EXCEPT !.videoWidth = videoWidth,
                          !.videoHeight = videoHeight]
      vw == FromInt(videoWidth)
      vh == FromInt(videoHeight)
      zero == FromInt(0)
  IN IF g.width = 0 \/ g.height = 0 \/ videoWidth = 0 \/ videoHeight = 0
       THEN [stored EXCEPT !.drawPosition = << zero, zero, vw, vh >>]
       ELSE LET containerW == FromInt(g.width)
                videoRatio == FDiv(vw, vh)
                canvasRatio == FDiv(containerW, FromInt(g.height))
            IN IF FGreater(videoRatio, canvasRatio)
                 THEN LET newH == FDiv(vw, canvasRatio)
                          y == FDiv(FSub(newH, vh), FromInt(2))
                      IN [stored EXCEPT
                            !.canvasEl = [width |-> vw, height |-> newH,
                                          scale |-> FDiv(containerW, vw)],
                            !.drawPosition = << zero, y, vw, vh >>]
                 ELSE LET newW == FMul(vh, canvasRatio)
                          x == FDiv(FSub(newW, vw), FromInt(2))
                      IN [stored EXCEPT
                            !.canvasEl = [width |-> newW, height |-> vh,
                                          scale |-> FDiv(containerW, newW)],
                            !.drawPosition = << x, zero, vw, vh >>]

\* ------------------------------------------------------------- formatTime
\* (src/utils.ts)  A text is the sequence of its characters; a time is a
\* finite number of milliseconds, or NaN, Infinity or -Infinity.

\* the largest number of whole minutes of the times formatted
MaxMinutes == 100

Finite(ms) == [kind |-> "finite", ms |-> ms]
NonFinite == {[kind |-> k, ms |-> 0] : k \in {"NaN", "Infinity", "-Infinity"}}

\* times around the places where a digit of the text changes
TimeInputs ==
  {Finite(mins * 60000 + secs * 1000 + frac) :
     mins \in {0, 9, 10, 99, MaxMinutes}, secs \in {0, 59}, frac \in {0, 999}}
    \cup NonFinite

DigitChars == << "0", "1", "2", "3", "4", "5", "6", "7", "8", "9" >>

\* Number.prototype.toString of a non-negative integer
RECURSIVE toString(_)
toString(n) ==
  IF n < 10 THEN << DigitChars[n + 1] >>
  ELSE Append(toString(n \div 10), DigitChars[(n % 10) + 1])

\* String.prototype.padStart(2, "0")
padStart2(s) == IF Len(s) < 2 THEN << "0" >> \o s ELSE s

formatTime(seconds) ==
  IF seconds.kind # "finite" THEN << "0", "0", ":", "0", "0" >>
  ELSE LET mins == seconds.ms \div 60000
           secs == (seconds.ms % 60000) \div 1000
       IN padStart2(toString(mins)) \o << ":" >> \o padStart2(toString(secs))

\* the code unit of a character of a formatted time
CodeUnit(c) ==
  IF c = ":" THEN 58
  ELSE 47 + (CHOOSE i \in 1..10 : DigitChars[i] = c)

\* s <= t in the order of strings (code unit by code unit)
RECURSIVE StringLeq(_, _)
StringLeq(s, t) ==
  IF s = << >> THEN TRUE
  ELSE IF t = << >> THEN FALSE
  ELSE IF CodeUnit(Head(s)) # CodeUnit(Head(t))
         THEN CodeUnit(Head(s)) < CodeUnit(Head(t))
  ELSE StringLeq(Tail(s), Tail(t))

\* two times not yet formatted
newTimeText(a, b) == [a |-> a, b |-> b, texts |-> << >>]

\* ---------------------------------------------------------- downloadVideo
\* (src/utils.ts)  A call is at "fetch" (awaiting fetch), at "blob" (awaiting
\* response.blob()) or "done"; clicked lists the links the call has clicked;
\* failure is what made the fetch path fail; rejected says that the promise
\* of the call was rejected, that is an error left downloadVideo.

\* calls of downloadVideo made
MaxCalls == 2

newCall ==
  [pc |-> "fetch", clicked |-> << >>, failure |-> "none", rejected |-> FALSE]

\* the try block from createObjectURL on: the blob link is clicked
blobLink(call) ==
  [call EXCEPT !.pc = "done", !.clicked = Append(@, "blob")]

\* the catch block: the direct link (target _blank) is clicked
directLink(call, why) ==
  [call EXCEPT !.pc = "done", !.clicked = Append(@, "direct"),
               !.failure = why]

\* await fetch(url) settles: the response is ok, is not ok, or fetch rejects
fetchSettled(call, outcome) ==
  CASE outcome = "ok" -> [call EXCEPT !.pc = "blob"]
    [] outcome = "not ok" -> directLink(call, "response not ok")
    [] outcome = "rejects" -> directLink(call, "fetch rejects")

\* mutant: a failure of response.blob() is not caught
blobSettled_uncaught(call, outcome) ==
  IF outcome = "ok" THEN blobLink(call)
  ELSE [call EXCEPT !.pc = "done", !.failure = "blob fails",
                    !.rejected = TRUE]

\* await response.blob() settles
blobSettled(call, outcome) ==
  IF outcome = "ok" THEN blobLink(call)
  ELSE directLink(call, "blob fails")

\* the geometry, the time formatting and the download at rest
IdleGeom == newGeom(2, 1)
IdleTimeText == newTimeText(Finite(0), Finite(0))
Idle == geom = IdleGeom /\ timeText = IdleTimeText /\ download = << >>

\* --------------------------------------------------------------- the machine

\* the configuration fields the component keeps
Configs ==
  [ poster : BOOLEAN, downloadVisible : BOOLEAN,
    pbVisible : BOOLEAN, pbHittable : BOOLEAN ]

\* the state the constructor leaves
constructed(c, cv) ==
  applyBottomControlsVisibility(
    [ cfg |-> c, status |-> "empty", rafId |-> NULL,
      suppressOnPauseOnce |-> FALSE, controlsVisible |-> cv,
      videoEl |-> FALSE, duration |-> 0, drawReady |-> FALSE,
      ui |-> createdUi(c, cv),
      mountedL |-> TRUE, destroyL |-> TRUE, life |-> "new",
      media |-> NoMedia, handlers |-> FALSE, seekedL |-> << >>,
      queue |-> << >>, scheduled |-> {}, out |-> << >> ])

InitFrom(cs) ==
  \E c \in cs, cv \in BOOLEAN :
    LET w == constructed(c, cv) IN
    /\ cfg = w.cfg /\ status = w.status /\ rafId = w.rafId
    /\ suppressOnPauseOnce = w.suppressOnPauseOnce
    /\ controlsVisible = w.controlsVisible /\ videoEl = w.videoEl
    /\ duration = w.duration /\ drawReady = w.drawReady
    /\ ui = w.ui
    /\ mountedL = w.mountedL /\ destroyL = w.destroyL /\ life = w.life
    /\ media = w.media /\ handlers = w.handlers /\ seekedL = w.seekedL
    /\ queue = w.queue /\ scheduled = w.scheduled /\ out = w.out
    /\ silentSince = FALSE
    /\ snap = << >>
    /\ destroyed = FALSE

\* the sub-switches at their documented defaults (all on)
Init ==
  /\ InitFrom({c \in Configs :
                 c.downloadVisible /\ c.pbVisible /\ c.pbHittable})
  /\ Idle

\* every configuration of the sub-switches, of a player without poster (the
\* poster is read by the cover-frame branch of onVideoLoadedMetadata only)
InitAllCfg == InitFrom({c \in Configs : ~c.poster}) /\ Idle

\* a step that is neither pauseSilently, setControlsVisible nor destroy
Plain(w) ==
  /\ Commit(w)
  /\ Cardinality(w.scheduled) <= MaxRaf
  /\ snap' = << >>
  /\ UNCHANGED destroyed

\* a node takes a tap when it is rendered and hit-testable
Hit(el) == ui[el].visible /\ ui[el].hittable

bottomAttrs(u) == [el \in BottomEls |-> u[el]]

RECURSIVE runSeeked(_, _, _)
runSeeked(w, ls, ok) ==
  IF ls = << >> THEN w
  ELSE runSeeked(
         IF Head(ls) = "cover" THEN coverSeeked(w) ELSE restartSeeked(w, ok),
         Tail(ls), ok)

\* the listeners of one dispatched event, in registration order
dispatch(w, type, ok) ==
  CASE type = "play" -> IF w.handlers THEN onVideoPlay(w) ELSE w
    [] type = "pause" -> IF w.handlers THEN onVideoPause(w) ELSE w
    [] type = "timeupdate" -> IF w.handlers THEN onVideoTimeUpdate(w) ELSE w
    [] type = "loadedmetadata" ->
         IF w.handlers THEN onVideoLoadedMetadata(w, ok) ELSE w
    [] type = "ended" -> IF w.handlers THEN onVideoEnded(w) ELSE w
    [] type = "seeked" ->
         runSeeked([w EXCEPT !.seekedL = << >>], w.seekedL, ok)

\* ---- public operations

Play ==
  \E ok \in BOOLEAN :
    /\ Plain(tryPlay(World, ok))
    /\ UNCHANGED silentSince

Pause ==
  /\ Plain(IF videoEl THEN mediaPause(World, "user") ELSE World)
  /\ UNCHANGED silentSince

PauseSilently ==
  LET w == [World EXCEPT !.suppressOnPauseOnce = TRUE] IN
  /\ Plain(IF videoEl THEN mediaPause(w, "silent") ELSE w)
  /\ silentSince' = TRUE

\* mutant: the master switch hides the centre overlays as well
setControlsVisible_withCentre(w, v) ==
  LET w1 == applyBottomControlsVisibility([w EXCEPT !.controlsVisible = v])
  IN IF v THEN w1
     ELSE setVisibleInteractive(
            setVisibleInteractive(w1, "playEl", FALSE), "pauseEl", FALSE)

setControlsVisible(w, v) ==
  applyBottomControlsVisibility([w EXCEPT !.controlsVisible = v])

SetControlsVisibleTo(v) ==
  /\ Commit(setControlsVisible(World, v))
  /\ snap' = IF ~v /\ controlsVisible THEN << bottomAttrs(ui) >> ELSE << >>
  /\ UNCHANGED << silentSince, destroyed >>

SetControlsVisible == \E v \in BOOLEAN : SetControlsVisibleTo(v)

Destroy ==
  /\ Commit(destroy(World))
  /\ snap' = << >>
  /\ destroyed' = TRUE
  /\ UNCHANGED silentSince

\* ---- host lifecycle notifications

Mount ==
  /\ life = "new"
  /\ Plain(LET w == [World EXCEPT !.life = "mounted", !.mountedL = FALSE] IN
           IF mountedL THEN initVideoEl(w) ELSE w)
  /\ UNCHANGED silentSince

ContainerRemoved ==
  /\ life # "removed"
  /\ Plain(LET w == [World EXCEPT !.life = "removed"] IN
           IF destroyL THEN cleanup(w) ELSE w)
  /\ UNCHANGED silentSince

\* ---- UI events

TapPlay ==
  \E ok \in BOOLEAN :
    /\ Hit("playEl")
    /\ Plain(tryPlay(World, ok))
    /\ UNCHANGED silentSince

TapControlPlay ==
  \E ok \in BOOLEAN :
    /\ Hit("controlPlayEl")
    /\ Plain(tryPlay(World, ok))
    /\ UNCHANGED silentSince

TapPause ==
  /\ Hit("pauseEl")
  /\ Plain(IF videoEl THEN mediaPause(World, "user") ELSE World)
  /\ UNCHANGED silentSince

TapControlPause ==
  /\ Hit("controlPauseEl")
  /\ Plain(IF videoEl THEN mediaPause(World, "user") ELSE World)
  /\ UNCHANGED silentSince

\* the world x coordinates a tap is made at: on the bar and on either side
TapXs == 0..(BarOriginX + BarWidth + 1)

\* the widths progressBarEl.worldBoxBounds has at a tap
BarLengths == {0, BarWidth}

\* the tap is within the horizontal extent of the bar's bounding box
InBar(x, barLength) == BarOriginX <= x /\ x <= BarOriginX + barLength

\* a tap at x: the listener of progressBarEl runs for a tap on the bar; a tap
\* beside the bar is not dispatched to it
TapProgressAt(x, barLength) ==
  /\ Hit("progressBarEl")
  /\ Plain(IF InBar(x, barLength)
             THEN handleSeekByProgressTap(Emit(World, "tap progressBarEl"),
                                          x, barLength)
             ELSE World)
  /\ UNCHANGED silentSince

TapProgress ==
  \E x \in TapXs, barLength \in BarLengths : TapProgressAt(x, barLength)

TapFullScreen ==
  /\ Hit("controlFullScreenEl")
  /\ Plain(Emit(IF videoEl THEN mediaPause(World, "env") ELSE World,
                "onFullScreen"))
  /\ UNCHANGED silentSince

PointerEnter ==
  /\ Plain([World EXCEPT !.ui["pauseEl"].visible = TRUE])
  /\ UNCHANGED silentSince

PointerLeave ==
  /\ Plain([World EXCEPT !.ui["pauseEl"].visible = FALSE])
  /\ UNCHANGED silentSince

\* ---- the media resource

MediaLoadedMetadata ==
  /\ media.state # "none"
  /\ ~media.hasMeta
  /\ Plain([World EXCEPT !.media.hasMeta = TRUE,
                         !.queue = Append(@, Ev("loadedmetadata", "env"))])
  /\ UNCHANGED silentSince

\* "timeupdate" is fired at any time of playback and seeking and each one is
\* dispatched on its own, so it is delivered here without passing the queue
MediaTimeUpdate ==
  /\ media.state = "live"
  /\ Plain(dispatch(Emit(World, Tag("timeupdate", "env")), "timeupdate",
                    TRUE))
  /\ UNCHANGED silentSince

\* playback advances; at the end the resource pauses and reports it
MediaAdvance ==
  /\ media.state = "live"
  /\ media.hasMeta
  /\ ~media.paused
  /\ LET p == Min(media.pos + PlayStep, MediaDur) IN
     Plain(IF p < MediaDur
             THEN [World EXCEPT !.media.pos = p]
             ELSE [World EXCEPT !.media.pos = p, !.media.paused = TRUE,
                                !.queue = @ \o << Ev("pause", "env"),
                                                  Ev("ended", "env") >>])
  /\ UNCHANGED silentSince

\* the queue without its i-th entry
Without(q, i) == SubSeq(q, 1, i - 1) \o SubSeq(q, i + 1, Len(q))

\* the entries that can be dispatched next: events are dispatched in the
\* order they were fired, and "seeked" is fired only when the seek completes,
\* so an event fired after the seek began can precede it
Deliverable ==
  {i \in 1..Len(queue) : \A j \in 1..(i - 1) : queue[j].type = "seeked"}

DeliverAt(i) ==
  \E ok \in BOOLEAN :
    LET e == queue[i] IN
    /\ Plain(dispatch(Emit([World EXCEPT !.queue = Without(@, i)],
                            Tag(e.type, e.cause)),
                       e.type, ok))
    /\ silentSince' =
         IF e.type = "pause" /\ handlers THEN FALSE ELSE silentSince

Deliver == \E i \in Deliverable : DeliverAt(i)

\* a media event of this type is dispatched
Delivers(type) ==
  \E i \in Deliverable : queue[i].type = type /\ DeliverAt(i)

\* ---- the frame scheduler

FrameTick ==
  \E id \in scheduled :
    /\ Plain(renderTick([World EXCEPT !.scheduled = @ \ {id}]))
    /\ UNCHANGED silentSince

Next ==
  \/ Play \/ Pause \/ PauseSilently \/ SetControlsVisible \/ Destroy
  \/ Mount \/ ContainerRemoved
  \/ TapPlay \/ TapControlPlay \/ TapPause \/ TapControlPause
  \/ TapProgress \/ TapFullScreen \/ PointerEnter \/ PointerLeave
  \/ MediaLoadedMetadata \/ MediaTimeUpdate \/ MediaAdvance \/ Deliver
  \/ FrameTick

Spec == Init /\ [][Next]_vars

SpecAllCfg == InitAllCfg /\ [][Next]_vars

\* ---- the letterbox geometry on its own

InitGeom ==
  /\ InitFrom({c \in Configs : ~c.poster /\ c.downloadVisible
                                 /\ c.pbVisible /\ c.pbHittable})
  /\ geom \in {newGeom(w, h) : w \in Dims, h \in Dims}
  /\ timeText = IdleTimeText
  /\ download = << >>

\* loadedmetadata reports the native size of the video and the draw rectangle
\* is computed from it
ComputeDraw ==
  \E videoWidth \in Dims, videoHeight \in Dims :
    /\ geom' = computeDrawPosition(geom, videoWidth, videoHeight)
    /\ UNCHANGED << machine, timeText, download >>

NextGeom == ComputeDraw

SpecGeom == InitGeom /\ [][NextGeom]_vars

\* ---- the time formatting on its own

InitTime ==
  /\ InitFrom({c \in Configs : ~c.poster /\ c.downloadVisible
                                 /\ c.pbVisible /\ c.pbHittable})
  /\ geom = IdleGeom
  /\ timeText \in {newTimeText(a, b) : a \in TimeInputs, b \in TimeInputs}
  /\ download = << >>

FormatTimes ==
  /\ timeText.texts = << >>
  /\ timeText' = [timeText EXCEPT
                    !.texts = << formatTime(timeText.a),
                                 formatTime(timeText.b) >>]
  /\ UNCHANGED << machine, geom, download >>

NextTime == FormatTimes

SpecTime == InitTime /\ [][NextTime]_vars

\* ---- the download on its own

InitDownload ==
  /\ InitFrom({c \in Configs : ~c.poster /\ c.pbVisible /\ c.pbHittable})
  /\ geom = IdleGeom
  /\ timeText = IdleTimeText
  /\ download = << >>

\* a tap on the download button calls downloadVideo(src)
TapDownload ==
  /\ Hit("controlDownloadEl")
  /\ Len(download) < MaxCalls
  /\ download' = Append(download, newCall)
  /\ UNCHANGED << machine, geom, timeText >>

FetchSettles ==
  \E i \in 1..Len(download), outcome \in {"ok", "not ok", "rejects"} :
    /\ download[i].pc = "fetch"
    /\ download' = [download EXCEPT ![i] = fetchSettled(@, outcome)]
    /\ UNCHANGED << machine, geom, timeText >>

BlobSettles ==
  \E i \in 1..Len(download), outcome \in {"ok", "fails"} :
    /\ download[i].pc = "blob"
    /\ download' = [download EXCEPT ![i] = blobSettled(@, outcome)]
    /\ UNCHANGED << machine, geom, timeText >>

NextDownload ==
  \/ TapDownload \/ FetchSettles \/ BlobSettles \/ SetControlsVisible

SpecDownload == InitDownload /\ [][NextDownload]_vars

\* ---- the player driven by play() alone, with a media resource that grants
\* every play() call, and without teardown; events are dispatched, metadata
\* loads, playback advances and frame callbacks run eventually

PlayGranted ==
  /\ Plain(tryPlay(World, TRUE))
  /\ UNCHANGED silentSince

DeliverGranted ==
  \E i \in Deliverable :
    LET e == queue[i] IN
    /\ Plain(dispatch(Emit([World EXCEPT !.queue = Without(@, i)],
                            Tag(e.type, e.cause)),
                       e.type, TRUE))
    /\ silentSince' =
         IF e.type = "pause" /\ handlers THEN FALSE ELSE silentSince

NextLive ==
  \/ PlayGranted \/ Mount
  \/ MediaLoadedMetadata \/ MediaAdvance \/ DeliverGranted \/ FrameTick

Fairness ==
  /\ WF_vars(DeliverGranted)
  /\ WF_vars(MediaLoadedMetadata)
  /\ WF_vars(MediaAdvance)
  /\ WF_vars(FrameTick)

SpecLive == Init /\ [][NextLive]_vars /\ Fairness

\* ===================================================================== claims

Causes == {"user", "silent", "env"}

Has(e) == \E i \in 1..Len(out) : out[i] = e

Count(e) == Cardinality({i \in 1..Len(out) : out[i] = e})

\* the last step dispatched a media event of this type to the component
Handled(type) ==
  /\ handlers
  /\ out # << >>
  /\ \E c \in Causes : out[1] = Tag(type, c)

\* C1: status is one of empty, loading, play, pause; it starts as empty, and
\* no step takes a status of loading, play or pause back to empty.
C1_EmptyNeverReentered ==
  /\ status = "empty"
  /\ [][/\ status' \in Statuses
        /\ (status # "empty" => status' \in {"loading", "play", "pause"})]_vars

\* C1 witness: playback ran to its end and the ended handler has run, so the
\* status has left empty and passed through further transitions.
C1_Witness == status = "pause" /\ Has("onEnded") /\ destroyL

\* C2: a handled play event leaves status play, exactly one frame callback
\* requested and onPlay invoked once; a handled pause event leaves status
\* pause and no frame callback; so the status is the kind of the event that
\* was delivered last, whatever was delivered before it.
C2_PlayPauseInDeliveryOrder ==
  /\ Handled("play") =>
       /\ status = "play"
       /\ rafId # NULL
       /\ scheduled = {rafId}
       /\ Count("onPlay") = 1
  /\ Handled("pause") =>
       /\ status = "pause"
       /\ rafId = NULL
       /\ scheduled = {}

\* C2 witness: rapid toggling; a pause event has just been handled while the
\* play event of the next toggle is already queued behind it.
C2_Witness ==
  /\ Handled("pause")
  /\ queue # << >>
  /\ Head(queue).type = "play"

\* C3: a pause event handled while pauseSilently() has been called since the
\* last handled pause event invokes no onPause and clears the one-shot flag;
\* any other handled pause event invokes onPause exactly once.
C3_SilentPauseOnce ==
  [][(Delivers("pause") /\ handlers) =>
       /\ ~suppressOnPauseOnce'
       /\ ~silentSince'
       /\ IF silentSince
            THEN \A i \in 1..Len(out') : out'[i] # "onPause"
            ELSE Cardinality({i \in 1..Len(out') : out'[i] = "onPause"}) = 1]_vars

\* C3 witness: the pause event pauseSilently() caused has been handled without
\* onPause and the flag is clear again.
C3_Witness ==
  /\ handlers
  /\ out = << Tag("pause", "silent") >>
  /\ ~suppressOnPauseOnce

\* C4 (as claimed): a handled pause event that pause() or a tap on a pause
\* control caused invokes onPause.
C4_UserPauseInvokesOnPause ==
  (handlers /\ out # << >> /\ out[1] = Tag("pause", "user")) => Has("onPause")

\* C5: while the master switch is off, the progress bar, the time text, the
\* download button, the fullscreen button and both bottom play/pause icons
\* have opacity 0 and are not hit-testable, whatever the sub-switches are and
\* whatever status transitions happen meanwhile.
C5_MasterOffHidesBottom ==
  ~controlsVisible =>
    \A el \in BottomEls : ui[el].opacity = 0 /\ ~ui[el].hittable

\* C5 witness: a play event was handled (a status transition that shows the
\* bottom pause icon) while the master switch was off and the sub-switches on.
C5_Witness ==
  /\ ~controlsVisible
  /\ Handled("play")
  /\ cfg.downloadVisible /\ cfg.pbVisible /\ cfg.pbHittable

\* C6 (as claimed): setControlsVisible(true) right after
\* setControlsVisible(false) gives every bottom control the visible, opacity
\* and hit-testability it had before the two calls.
C6_OffOnRestoresBottom ==
  [][(SetControlsVisibleTo(TRUE) /\ snap # << >>) =>
       bottomAttrs(ui') = snap[1]]_vars

\* C7: the download button is visible and hit-testable iff controlsVisible and
\* downloadVisible; the progress bar is visible iff controlsVisible and
\* progressbar.visible, and hit-testable iff progressbar.hittable as well; the
\* fullscreen button is visible and hit-testable iff controlsVisible; the time
\* text is visible iff controlsVisible and never hit-testable; in every state,
\* so no status transition changes these values.
C7_SubSwitchComposition ==
  LET shown(el, v) == ui[el].visible = v /\ ui[el].opacity = (IF v THEN 1 ELSE 0)
      dl == controlsVisible /\ cfg.downloadVisible
      pb == controlsVisible /\ cfg.pbVisible
  IN /\ shown("controlDownloadEl", dl)
     /\ ui["controlDownloadEl"].hittable = dl
     /\ shown("progressBarEl", pb)
     /\ ui["progressBarEl"].hittable = (pb /\ cfg.pbHittable)
     /\ shown("controlFullScreenEl", controlsVisible)
     /\ ui["controlFullScreenEl"].hittable = controlsVisible
     /\ shown("timeTextEl", controlsVisible)
     /\ ~ui["timeTextEl"].hittable

\* C7 witness: a pause event was handled with the master switch on, the
\* download button switched off and the progress bar shown but not hittable.
C7_Witness ==
  /\ Handled("pause")
  /\ controlsVisible
  /\ ~cfg.downloadVisible /\ cfg.pbVisible /\ ~cfg.pbHittable

\* C8 (as claimed): once destroy() has been called no frame callback is
\* scheduled, in whatever state the call was made.
C8_NoFrameAfterDestroy == destroyed => scheduled = {}

\* C9 (as claimed): once teardown has released the media resource, no listener
\* of the component is registered on it: neither the five media-event
\* handlers nor a one-shot seeked listener.
C9_NoListenerAfterTeardown ==
  media.state = "released" => (~handlers /\ seekedL = << >>)

\* C10: while the component holds no media resource (before mount, after
\* destroy or container removal) no frame callback is scheduled and the
\* handle is null, so no frame callback runs against a released resource.
C10_NoFrameWithoutMedia ==
  ~videoEl => (scheduled = {} /\ rafId = NULL)

\* C10 witness: the media resource was released while the status was play,
\* that is while the render loop was running.
C10_Witness == ~videoEl /\ media.state = "released" /\ status = "play"

\* a one-shot listener tryPlay registered is waiting for "seeked"
AwaitingRestart == \E i \in 1..Len(seekedL) : seekedL[i] = "restart"

\* a play request: play(), a tap on a play control, or the play request
\* onVideoLoadedMetadata issues
PlayRequest == Play \/ TapPlay \/ TapControlPlay

\* C11 (as claimed): a play request that finds the media at end-of-stream
\* sets the position to 0 and the status to loading and calls no play on the
\* media; no play is called on the media while the seeked listener of that
\* request is waiting; the seeked event that runs the listener paints, then
\* calls play exactly once, and leaves no such listener registered.
C11_SeekToStartThenPlay ==
  [][/\ (PlayRequest /\ videoEl /\ isAtEnd(World)) =>
          /\ media'.pos = 0
          /\ status' = "loading"
          /\ AwaitingRestart'
     /\ (videoEl' /\ AwaitingRestart') =>
          \A i \in 1..Len(out') : out'[i] # "media.play"
     /\ (Delivers("seeked") /\ AwaitingRestart
           /\ videoEl) =>
          /\ ~AwaitingRestart'
          /\ Cardinality({i \in 1..Len(out') : out'[i] = "media.play"}) = 1
          /\ \E i, j \in 1..Len(out') :
               i < j /\ out'[i] = "paint" /\ out'[j] = "media.play"]_vars

\* the number of tryPlay's one-shot listeners waiting for "seeked"
Restarts(ls) == Cardinality({i \in 1..Len(ls) : ls[i] = "restart"})

\* C12: a play request made while a media resource exists, the duration is
\* unknown and the status is not play sets the status to loading; a
\* loadedmetadata event handled in status loading issues a play request (play
\* is called on the media, or the seek to the start is begun); one handled in
\* any other status issues none; and the status becomes loading only by a
\* play request made with the duration unknown or at end-of-stream.
C12_PlayBeforeMetadata ==
  [][/\ (PlayRequest /\ videoEl /\ duration = 0 /\ status # "play") =>
          status' = "loading"
     /\ (Delivers("loadedmetadata") /\ handlers) =>
          LET played == \E i \in 1..Len(out') : out'[i] = "media.play"
              restarted == Restarts(seekedL') = Restarts(seekedL) + 1
          IN IF status = "loading"
               THEN played # restarted
               ELSE ~played /\ ~restarted
     /\ (status' = "loading" /\ status # "loading") =>
          /\ PlayRequest
          /\ videoEl
          /\ (duration = 0 /\ status # "play") \/ isAtEnd(World)]_vars

\* C12 witness: a loadedmetadata event was handled in status loading and the
\* play request it issued called play on the media.
C12_Witness ==
  /\ Handled("loadedmetadata")
  /\ status = "loading"
  /\ Has("media.play")

\* the fields of the component and of its media resource (all but the effect
\* log of the step)
fields ==
  << cfg, status, rafId, suppressOnPauseOnce, controlsVisible, videoEl,
     duration, drawReady, ui, mountedL, destroyL, life, media, handlers,
     seekedL, queue, scheduled >>

\* C13: with a media resource, a known duration and a bar of width > 0, a tap
\* on the progress bar at x sets the media position to
\* duration * clamp((x - barOriginX) / barWidth, 0, 1): 0 at the left edge,
\* the duration at the right edge, always within [0, duration]; a tap outside
\* the bounding box of the bar changes nothing.
C13_TapToSeek ==
  [][\A x \in TapXs, barLength \in BarLengths :
       TapProgressAt(x, barLength) =>
         IF ~InBar(x, barLength)
           THEN UNCHANGED fields /\ out' = << >>
           ELSE (videoEl /\ duration > 0 /\ barLength > 0) =>
                  /\ media'.pos =
                       (duration * Max(0, Min(barLength, x - BarOriginX)))
                         \div barLength
                  /\ 0 <= media'.pos /\ media'.pos <= duration
                  /\ (x = BarOriginX => media'.pos = 0)
                  /\ (x = BarOriginX + barLength => media'.pos = duration)]_vars

\* C13 witness: a tap on the right edge of the bar has set the position of a
\* playing media resource to the duration.
C13_Witness ==
  /\ out = << "tap progressBarEl" >>
  /\ duration > 0
  /\ media.pos = duration
  /\ ~media.paused

\* C14: a tap on the progress bar while the duration is unknown or the width
\* of the bar is zero leaves the media position, the status and every other
\* field unchanged, updates no progress fill and invokes no hook.
C14_TapNoOp ==
  [][\A x \in TapXs, barLength \in BarLengths :
       (TapProgressAt(x, barLength) /\ InBar(x, barLength)
          /\ (duration = 0 \/ barLength = 0)) =>
         /\ UNCHANGED fields
         /\ out' = << "tap progressBarEl" >>]_vars

\* C14 witness: the progress bar was tapped while a media resource had its
\* metadata and the component did not know the duration yet.
C14_Witness ==
  /\ out = << "tap progressBarEl" >>
  /\ videoEl
  /\ media.hasMeta
  /\ duration = 0

\* the callbacks of the configuration
Hooks == {"onPlay", "onPause", "onTimeUpdate", "onEnded", "onFullScreen"}

\* a tap the listener of the progress bar runs for
TapProgressOnBar ==
  \E x \in TapXs, barLength \in BarLengths :
    InBar(x, barLength) /\ TapProgressAt(x, barLength)

\* C15 (as claimed): while the component holds no media resource (before
\* mount, after destroy) play(), pause(), pauseSilently() and a tap on a
\* play, pause or progress control invoke no hook and leave every field of
\* the component unchanged: the status, the one-shot silent-pause flag, the
\* frame-callback handle and the UI attributes among them.
C15_NoMediaShortCircuit ==
  [][(/\ ~videoEl
      /\ \/ Play \/ Pause \/ PauseSilently
         \/ TapPlay \/ TapControlPlay \/ TapPause \/ TapControlPause
         \/ TapProgressOnBar) =>
       /\ UNCHANGED fields
       /\ \A i \in 1..Len(out') : out'[i] \notin Hooks]_vars

\* the one-shot listener of the default-cover seek is waiting for "seeked"
AwaitingCover == \E i \in 1..Len(seekedL) : seekedL[i] = "cover"

\* C20 (as claimed): the seeked event that completes the default-cover seek
\* never takes the status from play or loading to pause; the status leaves
\* play for pause only when a pause or ended event is handled.
C20_CoverOnlyFromEmpty ==
  [][/\ (Delivers("seeked") /\ AwaitingCover
           /\ status \in {"play", "loading"}) =>
          status' # "pause"
     /\ (status = "play" /\ status' = "pause") =>
          (Delivers("pause") \/ Delivers("ended"))]_vars

\* ---- computeDrawPosition

\* the common exponent of the numbers of a geometry and the integer each of
\* them is a multiple of 2^GeomExp of
GeomExp(g) ==
  LET es == {g.canvasEl.width.e, g.canvasEl.height.e, g.canvasEl.scale.e,
             g.drawPosition[1].e, g.drawPosition[2].e, 0}
  IN CHOOSE e \in es : \A f \in es : e <= f

Units(a, e0) == a.m * Pow2(a.e - e0)

\* container and native sizes are all positive
Positive(g) ==
  g.width > 0 /\ g.height > 0 /\ g.videoWidth > 0 /\ g.videoHeight > 0

\* the video is wider than the container: vw / vh > w / h
VideoWider(g) == g.videoWidth * g.height > g.width * g.videoHeight

EqualRatios(g) == g.videoWidth * g.height = g.width * g.videoHeight

\* one axis of the logical surface is the video's, the other is not smaller
OneAxisExpanded(g) ==
  LET e0 == GeomExp(g)
      one == Pow2(0 - e0)
      logicalW == Units(g.canvasEl.width, e0)
      logicalH == Units(g.canvasEl.height, e0)
  IN IF VideoWider(g)
       THEN logicalW = g.videoWidth * one /\ logicalH >= g.videoHeight * one
       ELSE logicalH = g.videoHeight * one /\ logicalW >= g.videoWidth * one

\* x >= 0 and y >= 0, at most one of them non-zero
OffsetsInRange(g) ==
  /\ g.drawPosition[1].m >= 0
  /\ g.drawPosition[2].m >= 0
  /\ g.drawPosition[1].m = 0 \/ g.drawPosition[2].m = 0

\* x + vw <= logicalW and y + vh <= logicalH
InsideSurface(g) ==
  LET e0 == GeomExp(g)
      one == Pow2(0 - e0)
  IN /\ Units(g.drawPosition[1], e0) + g.videoWidth * one
          <= Units(g.canvasEl.width, e0)
     /\ Units(g.drawPosition[2], e0) + g.videoHeight * one
          <= Units(g.canvasEl.height, e0)

\* the margins on both sides of the drawn region are equal
Centred(g) ==
  LET e0 == GeomExp(g)
      one == Pow2(0 - e0)
  IN /\ 2 * Units(g.drawPosition[1], e0) + g.videoWidth * one
          = Units(g.canvasEl.width, e0)
     /\ 2 * Units(g.drawPosition[2], e0) + g.videoHeight * one
          = Units(g.canvasEl.height, e0)

\* logicalW / logicalH = w / h
ContainerRatio(g) ==
  LET e0 == GeomExp(g) IN
  Units(g.canvasEl.width, e0) * g.height
    = g.width * Units(g.canvasEl.height, e0)

\* scale * logicalW = w
FitsContainer(g) ==
  g.canvasEl.scale.m * g.canvasEl.width.m
      * Pow2(g.canvasEl.scale.e + g.canvasEl.width.e
               - Min(0, g.canvasEl.scale.e + g.canvasEl.width.e))
    = g.width * Pow2(0 - Min(0, g.canvasEl.scale.e + g.canvasEl.width.e))

\* C16: for positive container and native sizes computeDrawPosition expands
\* exactly one axis of the logical surface (the height when the video is
\* wider than the container, otherwise the width); x >= 0 and y >= 0 with at
\* most one of them non-zero; the drawn region lies inside the logical
\* surface and is centred in it; the logical surface has the container's
\* aspect ratio and scale * logicalW = w.
C16_Letterboxing ==
  Positive(geom) =>
    /\ OneAxisExpanded(geom)
    /\ OffsetsInRange(geom)
    /\ InsideSurface(geom)
    /\ Centred(geom)
    /\ ContainerRatio(geom)
    /\ FitsContainer(geom)

\* the part of C16 that fails whatever the tolerance: the drawn region does
\* not stick out of the logical surface
C16_RegionInsideSurface ==
  Positive(geom) => OffsetsInRange(geom) /\ InsideSurface(geom)

\* C17: at equal aspect ratios the draw rectangle is (0, 0, vw, vh) and the
\* logical surface is exactly vw x vh; when a container or native dimension
\* is 0 the draw rectangle is (0, 0, vw, vh) and the drawing surface's width,
\* height and scale are left unchanged.
C17_DegenerateLetterbox ==
  [][LET g == geom'
         rect == << FromInt(0), FromInt(0),
                    FromInt(g.videoWidth), FromInt(g.videoHeight) >>
     IN /\ (Positive(g) /\ EqualRatios(g)) =>
             /\ g.drawPosition = rect
             /\ g.canvasEl.width = FromInt(g.videoWidth)
             /\ g.canvasEl.height = FromInt(g.videoHeight)
        /\ ~Positive(g) =>
             /\ g.drawPosition = rect
             /\ g.canvasEl = geom.canvasEl]_vars

\* the second half of C17 alone: a missing dimension leaves the surface alone
C17_MissingDimension ==
  [][~Positive(geom') =>
       /\ geom'.drawPosition =
            << FromInt(0), FromInt(0),
               FromInt(geom'.videoWidth), FromInt(geom'.videoHeight) >>
       /\ geom'.canvasEl = geom.canvasEl]_vars

\* ---- formatTime

Formatted == timeText.texts # << >>

\* C18: for finite a, b with 0 <= a <= b, formatTime(a) does not come after
\* formatTime(b) in the order of strings; for NaN, +Infinity and -Infinity
\* formatTime returns "00:00".
C18_FormatTimeMonotonic ==
  Formatted =>
    /\ (timeText.a.kind = "finite" /\ timeText.b.kind = "finite"
          /\ timeText.a.ms <= timeText.b.ms)
         => StringLeq(timeText.texts[1], timeText.texts[2])
    /\ timeText.a \in NonFinite
         => timeText.texts[1] = << "0", "0", ":", "0", "0" >>

\* the same below 100 minutes, where the minutes have two digits
C18_MonotonicBelow100Minutes ==
  Formatted =>
    /\ (timeText.a.kind = "finite" /\ timeText.b.kind = "finite"
          /\ timeText.a.ms <= timeText.b.ms /\ timeText.b.ms < 6000000)
         => StringLeq(timeText.texts[1], timeText.texts[2])
    /\ timeText.a \in NonFinite
         => timeText.texts[1] = << "0", "0", ":", "0", "0" >>

\* ---- downloadVideo

\* C19: downloadVideo clicks no link before the fetch path has succeeded or
\* failed; once it is done exactly one link has been clicked: the direct link
\* (target _blank) if fetch rejected, the response was not ok or reading the
\* blob failed, and the blob link otherwise; and its promise is never
\* rejected.
C19_DownloadRecovery ==
  \A i \in 1..Len(download) :
    LET call == download[i] IN
    /\ ~call.rejected
    /\ call.pc # "done" => call.clicked = << >> /\ call.failure = "none"
    /\ call.pc = "done" =>
         /\ Len(call.clicked) = 1
         /\ call.failure # "none" <=> call.clicked = << "direct" >>
         /\ call.failure = "none" <=> call.clicked = << "blob" >>

\* every failure has been recovered from, and a download has succeeded
C19_Witness ==
  /\ Len(download) = MaxCalls
  /\ \E i \in 1..Len(download) :
       download[i].pc = "done" /\ download[i].failure = "blob fails"
         /\ download[i].clicked = << "direct" >>
  /\ \E i \in 1..Len(download) :
       download[i].pc = "done" /\ download[i].failure = "none"
         /\ download[i].clicked = << "blob" >>

\* ---- the render loop

\* a frame callback runs and finds status play / another status
TickInPlay == FrameTick /\ status = "play"
TickOutsidePlay == FrameTick /\ status # "play"

\* C21: a frame tick that runs while status is play paints, updates the
\* progress bar and reschedules exactly one next tick; a tick that runs while
\* status is not play paints nothing, does not reschedule and clears the
\* frame-callback handle; hence once status is not play no tick is requested,
\* at most one is outstanding and none is after it has run.
C21_RenderLoopOnlyInPlay ==
  [][/\ TickInPlay =>
          /\ Count("paint")' = 1
          /\ Count("progress")' = 1
          /\ rafId' # NULL
          /\ scheduled' = {rafId'}
     /\ TickOutsidePlay =>
          /\ out' = << >>
          /\ rafId' = NULL
          /\ scheduled' = {}
     /\ status' # "play" =>
          /\ scheduled' \subseteq scheduled
          /\ Cardinality(scheduled') <= 1]_vars

\* C21 as amended: a tick in status play paints once the draw rectangle is
\* known and updates the progress bar once the duration is known, that is
\* once the metadata has been handled; before that it does neither; in both
\* cases it reschedules exactly one next tick.  The rest is as in C21.
C21_RenderLoopOnceMetadata ==
  [][/\ TickInPlay =>
          /\ Count("paint")' = (IF drawReady THEN 1 ELSE 0)
          /\ Count("progress")' = (IF duration > 0 THEN 1 ELSE 0)
          /\ Len(out') = Count("paint")' + Count("progress")'
          /\ rafId' # NULL
          /\ scheduled' = {rafId'}
     /\ TickOutsidePlay =>
          /\ out' = << >>
          /\ rafId' = NULL
          /\ scheduled' = {}
     /\ status' # "play" =>
          /\ scheduled' \subseteq scheduled
          /\ Cardinality(scheduled') <= 1]_vars

\* C21 witness: a tick has run in status play with the metadata handled: it
\* painted, updated the progress bar and left one callback requested.
C21_Witness ==
  /\ out = << "paint", "progress" >>
  /\ status = "play"
  /\ rafId # NULL
  /\ scheduled = {rafId}

\* ---- one frame callback

PlayPauseIcons == {"playEl", "pauseEl", "controlPlayEl", "controlPauseEl"}

\* C23: whenever status is loading the spinner has opacity 1 and the centre
\* and bottom play and pause icons all have opacity 0 and are not
\* hit-testable, so none of them takes a tap.
C23_LoadingHidesIcons ==
  status = "loading" =>
    /\ ui["loadingEl"].opacity = 1
    /\ \A el \in PlayPauseIcons :
         ui[el].opacity = 0 /\ ~ui[el].hittable /\ ~Hit(el)

\* the part of C23 about the centre icons and the spinner
C23_LoadingHidesCentreIcons ==
  status = "loading" =>
    /\ ui["loadingEl"].opacity = 1
    /\ \A el \in {"playEl", "pauseEl"} :
         ui[el].opacity = 0 /\ ~ui[el].hittable

\* the centre overlay each status shows
Overlay(st) ==
  CASE st = "play" -> "pauseEl"
    [] st = "loading" -> "loadingEl"
    [] OTHER -> "playEl"

\* C24: exactly one of the three centre overlays has opacity 1, the one that
\* matches the status (the play icon for empty and pause, the pause icon for
\* play, the spinner for loading); the spinner is never hit-testable and the
\* play and pause icons are hit-testable exactly when they have opacity 1.
C24_OneCentreOverlay ==
  /\ \A el \in CenterEls :
       ui[el].opacity = (IF el = Overlay(status) THEN 1 ELSE 0)
  /\ ~ui["loadingEl"].hittable
  /\ \A el \in {"playEl", "pauseEl"} :
       ui[el].hittable <=> ui[el].opacity = 1

\* C24 without the clause about the spinner's hit-testability
C24_OverlayMatchesStatus ==
  /\ \A el \in CenterEls :
       ui[el].opacity = (IF el = Overlay(status) THEN 1 ELSE 0)
  /\ \A el \in {"playEl", "pauseEl"} :
       ui[el].hittable <=> ui[el].opacity = 1

\* ---- the master switch

\* C25: setControlsVisible(v) leaves unchanged the status, the attributes of
\* the three centre overlays, the media resource with its playback state and
\* its queued events, the frame-callback handle with the callbacks requested
\* and the silent-pause flag, and it invokes no hook.
C25_MasterSwitchFrame ==
  [][SetControlsVisible =>
       /\ status' = status
       /\ \A el \in CenterEls : ui'[el] = ui[el]
       /\ videoEl' = videoEl
       /\ media' = media
       /\ queue' = queue
       /\ rafId' = rafId
       /\ scheduled' = scheduled
       /\ suppressOnPauseOnce' = suppressOnPauseOnce
       /\ \A h \in Hooks : ~Has(h)']_vars

\* C25 witness: the controls have been switched off during playback, with
\* the render loop running and a silent pause pending.
C25_Witness ==
  /\ ~controlsVisible
  /\ snap # << >>
  /\ status = "play"
  /\ rafId # NULL
  /\ suppressOnPauseOnce

\* ---- the media resource and teardown

\* C26: the media resource is created only by the mount notification, which
\* comes once; once destroy() has been called the component holds no media
\* resource and none is left unreleased; after the container-removal
\* notification the component holds no media resource, none is left
\* unreleased and the media-event handlers are not registered.
C26_MediaReleasedByTeardown ==
  [][/\ (~videoEl /\ videoEl') => (life = "new" /\ life' = "mounted")
     /\ destroyed' => (~videoEl' /\ media'.state # "live")
     /\ life' = "removed" =>
          (~videoEl' /\ media'.state # "live" /\ ~handlers')]_vars

\* what does hold: only the mount notification creates a media resource, and
\* a destroy() call, or a container-removal notification not preceded by
\* destroy(), leaves no media resource held or unreleased and no handler
C26_EachTeardownReleases ==
  [][/\ (~videoEl /\ videoEl') => (life = "new" /\ life' = "mounted")
     /\ (Destroy \/ (ContainerRemoved /\ ~destroyed)) =>
          (~videoEl' /\ media'.state # "live" /\ ~handlers')]_vars

\* ---- leaving loading

\* C27: with every play() call granted, media events dispatched eventually
\* and no teardown, whenever status is loading it eventually becomes play.
C27_LoadingLeadsToPlay == (status = "loading") ~> (status = "play")

\* no dispatch waits for room in the queue: the bound on the queue stops no
\* event from being dispatched
C27_DispatchNotBlocked == queue # << >> => ENABLED DeliverGranted

====
